---- MODULE Spec2Model ----
(***************************************************************************)
(* Model of klazapp/react-logger: the process-wide enablement rule, the    *)
(* logger factories (logger.ts), the call-instrumentation proxy            *)
(* (withDebugProxy.ts) and the method decorator (decorators.ts).           *)
(*                                                                         *)
(* JavaScript values are records [tag, items]; a string is the sequence of *)
(* the pieces it is concatenated from, so `[${ns}]` is "[" \o ns \o "]".   *)
(* The markers of the source ("▶ args:", "✅ result:", "❌ error in ")     *)
(* are written in ASCII.                                                   *)
(***************************************************************************)
EXTENDS Integers, Sequences, FiniteSets, TLC

VARIABLES
    _isEnabled,   \* logger.ts: the active enablement rule
    env,          \* what defaultEnabled reads: window, localStorage.debug, NODE_ENV
    __DEV__,      \* the build-time development flag
    loggers,      \* the Logger objects handed out by makeLogger / makeDevLogger, each with
                  \* the factory that made it and the rule installed when it was made
    proxy,        \* the wrapper handed out by withDebugProxy (its closure)
    decorated,    \* the namespace argument of the DebugLog decoration in use
    held,         \* the function last read from the wrapper and kept by the caller,
                  \* with what the option functions answered when it was read
    calls,        \* instrumented calls whose deferred result is still in flight
    microtasks,   \* the host's queue of promise reaction jobs (call ids)
    last,         \* the operation performed by the most recent step, and what its caller got
    effects       \* what that step did, in order: rule invocations, console lines, original invocations

vars == <<_isEnabled, env, __DEV__, loggers, proxy, decorated, held, calls, microtasks, last, effects>>

----------------------------------------------------------------------------
(* Bounds *)

MaxLoggers == 1    \* loggers handed out in one run
MaxCalls == 1      \* instrumented calls with a deferred result in one run
MaxInFlight == 2   \* the same, where calls overlap (SpecConcurrent)

----------------------------------------------------------------------------
(* JavaScript values *)

Str(pieces) == [tag |-> "string", items |-> pieces]
Bool(b) == [tag |-> "boolean", items |-> IF b THEN <<"true">> ELSE <<"false">>]
Arr(xs) == [tag |-> "array", items |-> xs]
Err(msg) == [tag |-> "Error", items |-> <<msg>>]
Null == [tag |-> "null", items |-> << >>]
Undefined == [tag |-> "undefined", items |-> << >>]

\* ToBoolean: null, undefined, false and "" are falsy
Truthy(v) == ~(v.tag \in {"null", "undefined"} \/ v = Bool(FALSE) \/ v = Str(<< >>))

\* a && b, a || b, a !== b
JsAnd(a, b) == IF Truthy(a) THEN b ELSE a
JsOr(a, b) == IF Truthy(a) THEN a ELSE b
StrictNe(a, b) == Bool(a # b)

LogLevel == {"debug", "info", "warn", "error"}

Namespaces == {<<"X">>, <<"UserService">>}
ValueLists == {<< >>, <<Str(<<"a">>), Str(<<"1">>)>>, <<Str(<<"b">>)>>}

----------------------------------------------------------------------------
(* The enablement rule *)

Contexts == {"node", "browser", "browserNoStorage"}
NodeEnvs == {Undefined, Str(<<"production">>), Str(<<"development">>)}
StoredDebug == {Null, Str(<< >>), Str(<<"false">>), Str(<<"true">>), Str(<<"0">>)}

\* window.localStorage?.getItem("debug")
GetItemDebug(e) == IF e.context = "browserNoStorage" THEN Undefined ELSE e.debug

\* defaultEnabled taking any non-empty stored value, "false" included
defaultEnabled_anyValue(e) ==
    IF e.context = "node"
    THEN StrictNe(e.NODE_ENV, Str(<<"production">>))
    ELSE LET ls == GetItemDebug(e)
         IN  JsOr(ls, StrictNe(e.NODE_ENV, Str(<<"production">>)))

defaultEnabled(e) ==
    IF e.context = "node"
    THEN StrictNe(e.NODE_ENV, Str(<<"production">>))
    ELSE LET ls == GetItemDebug(e)
         IN  JsOr(JsAnd(ls, StrictNe(ls, Str(<<"false">>))),
                  StrictNe(e.NODE_ENV, Str(<<"production">>)))

\* The predicates a caller may install; "throwing" raises instead of returning.
EnableFns == {"defaultEnabled", "alwaysOn", "alwaysOff", "throwing"}
RuleError == Err("rule failed")
NoExc == [tag |-> "none", items |-> << >>]

\* _isEnabled(): the outcome of invoking the rule fn in environment e
CallRule(fn, e) ==
    CASE fn = "defaultEnabled" -> [thrown |-> NoExc, value |-> defaultEnabled(e)]
      [] fn = "alwaysOn" -> [thrown |-> NoExc, value |-> Bool(TRUE)]
      [] fn = "alwaysOff" -> [thrown |-> NoExc, value |-> Bool(FALSE)]
      [] OTHER -> [thrown |-> RuleError, value |-> Undefined]

----------------------------------------------------------------------------
(* Effects of one step *)

RuleEv(fn, r) == [ev |-> "rule", chan |-> fn, items |-> IF r.thrown = NoExc THEN <<r.value>> ELSE << >>]
ConsoleEv(chan, line) == [ev |-> "console", chan |-> chan, items |-> line]
OrigEv(thisArg, m, args) == [ev |-> "orig", chan |-> thisArg, items |-> <<Str(<<m>>), Arr(args)>>]

\* `[${ns}]`
Tag(ns) == Str(<<"[">> \o ns \o <<"]">>)

\* emit reading the rule that was installed when the module was loaded
emit_stale(ns, lvl, a, fx) ==
    LET r == CallRule("defaultEnabled", env)
        fx1 == Append(fx, RuleEv("defaultEnabled", r))
    IN  IF r.thrown # NoExc THEN [fx |-> fx1, thrown |-> r.thrown]
        ELSE IF ~Truthy(r.value) /\ lvl = "debug" THEN [fx |-> fx1, thrown |-> NoExc]
        ELSE [fx |-> Append(fx1, ConsoleEv(IF lvl = "debug" THEN "log" ELSE lvl, <<Tag(ns)>> \o a)),
              thrown |-> NoExc]

\* makeLogger(ns).<lvl>(...a), run after the effects fx: the effects it
\* leaves and the exception it ends with (NoExc: it returned)
emit(ns, lvl, a, fx) ==
    LET r == CallRule(_isEnabled, env)
        fx1 == Append(fx, RuleEv(_isEnabled, r))
    IN  IF r.thrown # NoExc THEN [fx |-> fx1, thrown |-> r.thrown]
        ELSE IF ~Truthy(r.value) /\ lvl = "debug" THEN [fx |-> fx1, thrown |-> NoExc]
        ELSE [fx |-> Append(fx1, ConsoleEv(IF lvl = "debug" THEN "log" ELSE lvl, <<Tag(ns)>> \o a)),
              thrown |-> NoExc]

\* const noop = () => {}
noop(fx) == [fx |-> fx, thrown |-> NoExc]

\* The Logger objects: makeLogger's closures over ns, or makeDevLogger's no-ops.
Logger(ns, isNoop) == [ns |-> ns, noop |-> isNoop]

makeLogger(ns) == Logger(ns, FALSE)

\* makeDevLogger without the typeof check: !__DEV__ alone
makeDevLogger_untyped(ns, dev) ==
    IF ~Truthy(dev) THEN Logger(ns, TRUE) ELSE makeLogger(ns)

makeDevLogger(ns, dev) ==
    IF dev # Undefined /\ ~Truthy(dev) THEN Logger(ns, TRUE) ELSE makeLogger(ns)

\* log.<lvl>(...a) on a Logger object
LoggerCall(log, lvl, a, fx) ==
    IF log.noop THEN noop(fx) ELSE emit(log.ns, lvl, a, fx)

----------------------------------------------------------------------------
(* withDebugProxy.ts and decorators.ts *)

\* The wrapped object: getUser does what its caller's scenario makes it do
\* (return a value, throw, or return a deferred result); batch calls
\* this.getUser(...args) through its receiver and returns "done".
Methods == {"getUser", "batch"}
DataProperties == {"version"}
ArgLists == {<<"alice", "s3cret">>}

User == [tag |-> "object", items |-> <<"id:123", "name:Alice">>]
Done == Str(<<"done">>)
LimitExceeded == Err("Limit exceeded")
RedactError == Err("redact failed")

Returned(v) == [kind |-> "returned", value |-> v, id |-> 0]
Threw(v) == [kind |-> "threw", value |-> v, id |-> 0]
Deferred(id) == [kind |-> "deferred", value |-> Undefined, id |-> id]

\* What the body of getUser may do when it is invoked
Behaviours == {Returned(User), Threw(LimitExceeded), Deferred(0)}

\* ProxyOpts, by what each optional function does
ProxyOptions ==
    [optOut : SUBSET Methods,
     redactArgs : BOOLEAN,
     redactResult : {"absent", "mask", "raise"},
     namespaceFor : {"absent", "override"}]

NoProxy == [wrapped |-> FALSE, name |-> << >>,
            opts |-> [optOut |-> {}, redactArgs |-> FALSE,
                      redactResult |-> "absent", namespaceFor |-> "absent"]]

ProxyName == <<"UserService">>

\* No function read from the wrapper yet
NoRef == [wrapped |-> FALSE, m |-> "", ns |-> << >>, at |-> NoProxy.opts]

\* opts.optOut?.(methodName)
optOut(m) == m \in proxy.opts.optOut

\* opts.redactArgs(args, methodName): the README's (args) => ["***"]
redactArgs(args, m) == Arr(<<"***">>)

\* opts.redactResult(res, methodName) when it returns
redactResult(res, m) == Str(<<"<redacted>">>)

\* opts.namespaceFor?.(methodName): (m) => (m === "getUser" ? "Sync" : undefined)
namespaceFor(m) ==
    IF proxy.opts.namespaceFor = "override" /\ m = "getUser" THEN Str(<<"Sync">>) ELSE Undefined

\* a ?? b
Coalesce(a, b) == IF a.tag \in {"null", "undefined"} THEN b ELSE a

ArgsMarker == Str(<<"> args:">>)
ResultMarker == Str(<<"ok result:">>)
\* `x error in ${methodName}:` and the decorator's "x error:"
ErrorIn(m) == Str(<<"x error in ", m, ":">>)
ErrorMarker == Str(<<"x error:">>)

\* An instrumented call whose result is deferred: the closure of its
\* continuations (kind, method, logger namespace), where its promise chain
\* out -> out.then(..) -> .catch(..) stands, and its history.
Call(kind, m, ns) ==
    [kind |-> kind, m |-> m, ns |-> ns,
     stage |-> "pending", status |-> "pending", value |-> Undefined,
     orig |-> "pending", settleRank |-> 0, logRank |-> 0]

\* The get trap: what reading property m of the wrapper yields: the
\* target's own value or function, or a wrapped callable with its namespace
get(m) ==
    IF m \notin Methods \/ optOut(m) THEN [wrapped |-> FALSE, m |-> m, ns |-> << >>]
    ELSE [wrapped |-> TRUE, m |-> m,
          ns |-> Coalesce(namespaceFor(m), Str(proxy.name \o <<".", m>>)).items]

\* catch (err) { baseLog.error(`x error in ${methodName}:`, err); throw err; }
CatchProxy(m, err, st) ==
    LET s == emit(proxy.name, "error", <<ErrorIn(m), err>>, st.fx)
    IN  [fx |-> s.fx, calls |-> st.calls,
         outcome |-> Threw(IF s.thrown # NoExc THEN s.thrown ELSE err)]

\* AfterOrigProxy with the redacted copy threaded back to the caller
AfterOrigProxy_leak(m, ns, b) ==
    CASE b.outcome.kind = "threw" -> CatchProxy(m, b.outcome.value, b)
      [] b.outcome.kind = "deferred" ->
            [fx |-> b.fx, calls |-> Append(b.calls, Call("proxy", m, ns)),
             outcome |-> Deferred(Len(b.calls) + 1)]
      [] OTHER ->
            IF proxy.opts.redactResult = "raise" THEN CatchProxy(m, RedactError, b)
            ELSE LET r == IF proxy.opts.redactResult = "mask"
                          THEN redactResult(b.outcome.value, m) ELSE b.outcome.value
                     s == emit(ns, "debug", <<ResultMarker, r>>, b.fx)
                 IN  IF s.thrown # NoExc
                     THEN CatchProxy(m, s.thrown, [fx |-> s.fx, calls |-> b.calls])
                     ELSE [fx |-> s.fx, calls |-> b.calls, outcome |-> Returned(r)]

\* The wrapped callable after orig.apply(target, args) gave b
AfterOrigProxy(m, ns, b) ==
    CASE b.outcome.kind = "threw" -> CatchProxy(m, b.outcome.value, b)
      [] b.outcome.kind = "deferred" ->
            [fx |-> b.fx, calls |-> Append(b.calls, Call("proxy", m, ns)),
             outcome |-> Deferred(Len(b.calls) + 1)]
      [] OTHER ->
            IF proxy.opts.redactResult = "raise" THEN CatchProxy(m, RedactError, b)
            ELSE LET r == IF proxy.opts.redactResult = "mask"
                          THEN redactResult(b.outcome.value, m) ELSE b.outcome.value
                     s == emit(ns, "debug", <<ResultMarker, r>>, b.fx)
                 IN  IF s.thrown # NoExc
                     THEN CatchProxy(m, s.thrown, [fx |-> s.fx, calls |-> b.calls])
                     ELSE [fx |-> s.fx, calls |-> b.calls, outcome |-> Returned(b.outcome.value)]

RECURSIVE Body(_, _, _, _, _)
RECURSIVE CallRef(_, _, _, _, _)

\* function (...args) { ... } returned by the get trap for method m
WrappedCallable(m, ns, args, beh, st) ==
    LET a == IF proxy.opts.redactArgs THEN redactArgs(args, m) ELSE Arr(args)
        s == emit(ns, "debug", <<ArgsMarker, a>>, st.fx)
    IN  IF s.thrown # NoExc
        THEN [fx |-> s.fx, calls |-> st.calls, outcome |-> Threw(s.thrown)]
        ELSE AfterOrigProxy(m, ns, Body(m, "target", args, beh, [fx |-> s.fx, calls |-> st.calls]))

\* CallRef asking optOut again when the function is invoked
CallRef_recheck(ref, thisArg, args, beh, st) ==
    IF ref.wrapped /\ ~optOut(ref.m) THEN WrappedCallable(ref.m, ref.ns, args, beh, st)
    ELSE Body(ref.m, thisArg, args, beh, st)

\* Calling what the get trap returned, with receiver thisArg
CallRef(ref, thisArg, args, beh, st) ==
    IF ref.wrapped THEN WrappedCallable(ref.m, ref.ns, args, beh, st)
    ELSE Body(ref.m, thisArg, args, beh, st)

\* The original functions of the wrapped object, invoked with receiver thisArg
Body(m, thisArg, args, beh, st) ==
    LET st1 == [fx |-> Append(st.fx, OrigEv(thisArg, m, args)), calls |-> st.calls]
    IN  IF m = "getUser"
        THEN [fx |-> st1.fx, calls |-> st1.calls, outcome |-> beh]
        ELSE LET inner == IF thisArg = "proxy"
                          THEN CallRef(get("getUser"), "proxy", args, beh, st1)
                          ELSE Body("getUser", thisArg, args, beh, st1)
             IN  [fx |-> inner.fx, calls |-> inner.calls,
                  outcome |-> IF inner.outcome.kind = "threw" THEN inner.outcome ELSE Returned(Done)]

\* DebugLog(ns) applied to method key: the replacement d.value
DecoratedKey == "processPayment"

CatchDecorated(ns, err, st) ==
    LET s == emit(ns, "error", <<ErrorMarker, err>>, st.fx)
    IN  [fx |-> s.fx, calls |-> st.calls,
         outcome |-> Threw(IF s.thrown # NoExc THEN s.thrown ELSE err)]

DecoratedMethod(key, args, beh, st) ==
    LET ns == Coalesce(decorated, Str(<<key>>)).items
        s == emit(ns, "debug", <<ArgsMarker, Arr(args)>>, st.fx)
    IN  IF s.thrown # NoExc
        THEN [fx |-> s.fx, calls |-> st.calls, outcome |-> Threw(s.thrown)]
        ELSE LET fx1 == Append(s.fx, OrigEv("instance", key, args))
                 b == [fx |-> fx1, calls |-> st.calls]
             IN  CASE beh.kind = "threw" -> CatchDecorated(ns, beh.value, b)
                   [] beh.kind = "deferred" ->
                         [fx |-> fx1, calls |-> Append(st.calls, Call("decorated", key, ns)),
                          outcome |-> Deferred(Len(st.calls) + 1)]
                   [] OTHER ->
                         LET s2 == emit(ns, "debug", <<ResultMarker, beh.value>>, fx1)
                         IN  IF s2.thrown # NoExc
                             THEN CatchDecorated(ns, s2.thrown, [fx |-> s2.fx, calls |-> st.calls])
                             ELSE [fx |-> s2.fx, calls |-> st.calls, outcome |-> Returned(beh.value)]

\* The reaction of .then((res) => ...) to the settled result of the original
ThenJob(c) ==
    IF c.status = "rejected"
    THEN [fx |-> << >>, status |-> "rejected", value |-> c.value, logs |-> FALSE]
    ELSE IF c.kind = "proxy" /\ proxy.opts.redactResult = "raise"
    THEN [fx |-> << >>, status |-> "rejected", value |-> RedactError, logs |-> FALSE]
    ELSE LET r == IF c.kind = "proxy" /\ proxy.opts.redactResult = "mask"
                  THEN redactResult(c.value, c.m) ELSE c.value
             s == emit(c.ns, "debug", <<ResultMarker, r>>, << >>)
         IN  IF s.thrown # NoExc
             THEN [fx |-> s.fx, status |-> "rejected", value |-> s.thrown, logs |-> TRUE]
             ELSE [fx |-> s.fx, status |-> "fulfilled", value |-> c.value, logs |-> TRUE]

\* The reaction of .catch((err) => ...) to the result of the .then promise
CatchJob(c) ==
    IF c.status = "fulfilled"
    THEN [fx |-> << >>, status |-> "fulfilled", value |-> c.value, logs |-> FALSE]
    ELSE LET s == IF c.kind = "proxy"
                  THEN emit(proxy.name, "error", <<ErrorIn(c.m), c.value>>, << >>)
                  ELSE emit(c.ns, "error", <<ErrorMarker, c.value>>, << >>)
         IN  [fx |-> s.fx, status |-> "rejected",
              value |-> IF s.thrown # NoExc THEN s.thrown ELSE c.value, logs |-> TRUE]

RECURSIVE MaxRank(_, _)
MaxRank(cs, field) ==
    IF cs = << >> THEN 0
    ELSE LET r == MaxRank(Tail(cs), field)
         IN  IF Head(cs)[field] > r THEN Head(cs)[field] ELSE r

----------------------------------------------------------------------------
(* Operations of logger.ts *)

Idle == [op |-> "none"]

Envs == [context : Contexts, NODE_ENV : NodeEnvs, debug : StoredDebug]

\* Environments of the general specification: one per outcome of the default
\* rule and per branch of defaultEnabled (SpecEnv covers all of Envs).
SampleEnvs ==
    {[context |-> "node", NODE_ENV |-> Undefined, debug |-> Null],
     [context |-> "node", NODE_ENV |-> Str(<<"production">>), debug |-> Null],
     [context |-> "browser", NODE_ENV |-> Str(<<"production">>), debug |-> Str(<<"true">>)]}

InitCommon ==
    /\ _isEnabled = "defaultEnabled"
    /\ loggers = {}
    /\ proxy = NoProxy
    /\ decorated = Undefined
    /\ held = NoRef
    /\ calls = << >>
    /\ microtasks = << >>
    /\ last = Idle
    /\ effects = << >>

Init ==
    /\ InitCommon
    /\ env \in SampleEnvs
    /\ __DEV__ \in {Undefined, Bool(TRUE), Bool(FALSE)}

SetEnableRule(fn) ==
    /\ _isEnabled' = fn
    /\ last' = [op |-> "setEnableRule", fn |-> fn]
    /\ effects' = << >>
    /\ UNCHANGED <<env, __DEV__, loggers, proxy, decorated, held, calls, microtasks>>

\* A handed-out logger: the object, and the history of its construction
Made(obj, via) == [obj |-> obj, via |-> via, rule0 |-> _isEnabled, dev |-> __DEV__]

MakeLogger(ns) ==
    LET h == Made(makeLogger(ns), "makeLogger")
    IN  /\ Cardinality(loggers \cup {h}) <= MaxLoggers
        /\ loggers' = loggers \cup {h}
        /\ last' = [op |-> "makeLogger", ns |-> ns]
        /\ effects' = << >>
        /\ UNCHANGED <<_isEnabled, env, __DEV__, proxy, decorated, held, calls, microtasks>>

MakeDevLogger(ns) ==
    LET h == Made(makeDevLogger(ns, __DEV__), "makeDevLogger")
    IN  /\ Cardinality(loggers \cup {h}) <= MaxLoggers
        /\ loggers' = loggers \cup {h}
        /\ last' = [op |-> "makeDevLogger", ns |-> ns]
        /\ effects' = << >>
        /\ UNCHANGED <<_isEnabled, env, __DEV__, proxy, decorated, held, calls, microtasks>>

Emit(h, lvl, a) ==
    /\ h \in loggers
    /\ LET r == LoggerCall(h.obj, lvl, a, << >>)
       IN  /\ effects' = r.fx
           /\ last' = [op |-> "emit", h |-> h, lvl |-> lvl, a |-> a, thrown |-> r.thrown]
    /\ UNCHANGED <<_isEnabled, env, __DEV__, loggers, proxy, decorated, held, calls, microtasks>>

NextLogger ==
    \/ \E fn \in EnableFns : SetEnableRule(fn)
    \/ \E ns \in Namespaces : MakeLogger(ns)
    \/ \E ns \in Namespaces : MakeDevLogger(ns)
    \/ \E h \in loggers, lvl \in LogLevel, a \in ValueLists : Emit(h, lvl, a)

Spec == Init /\ [][NextLogger]_vars

\* The default rule over every environment: loggers are made and used while
\* the rule installed at start-up stays in place.
InitEnv ==
    /\ InitCommon
    /\ env \in Envs
    /\ __DEV__ = Undefined

NextEnv ==
    \/ \E ns \in Namespaces : MakeLogger(ns)
    \/ \E h \in loggers, lvl \in LogLevel, a \in ValueLists : Emit(h, lvl, a)

SpecEnv == InitEnv /\ [][NextEnv]_vars

----------------------------------------------------------------------------
(* Operations on instrumented objects *)

WithDebugProxy(opts) ==
    /\ ~proxy.wrapped
    /\ proxy' = [wrapped |-> TRUE, name |-> ProxyName, opts |-> opts]
    /\ last' = [op |-> "withDebugProxy"]
    /\ effects' = << >>
    /\ UNCHANGED <<_isEnabled, env, __DEV__, loggers, decorated, held, calls, microtasks>>

\* wrapper.version: the get trap hands a non-function property through
ReadProperty(prop) ==
    /\ proxy.wrapped
    /\ last' = [op |-> "get", prop |-> prop, ref |-> get(prop)]
    /\ effects' = << >>
    /\ UNCHANGED <<_isEnabled, env, __DEV__, loggers, proxy, decorated, held, calls, microtasks>>

\* wrapper.m(...args): the get trap, then the call of what it returned
CallMethod(m, args, beh) ==
    /\ proxy.wrapped
    /\ LET ref == get(m)
           r == CallRef(ref, "proxy", args, beh, [fx |-> << >>, calls |-> calls])
       IN  /\ calls' = r.calls
           /\ effects' = r.fx
           /\ last' = [op |-> "call", via |-> "proxy", m |-> m, args |-> args, ref |-> ref,
                       beh |-> beh, outcome |-> r.outcome]
    /\ UNCHANGED <<_isEnabled, env, __DEV__, loggers, proxy, decorated, held, microtasks>>

\* instance.processPayment(...args) on a class whose method carries @DebugLog
CallDecorated(args, beh) ==
    /\ LET r == DecoratedMethod(DecoratedKey, args, beh, [fx |-> << >>, calls |-> calls])
       IN  /\ calls' = r.calls
           /\ effects' = r.fx
           /\ last' = [op |-> "call", via |-> "decorated", m |-> DecoratedKey, args |-> args,
                       ref |-> [wrapped |-> TRUE, m |-> DecoratedKey,
                                ns |-> Coalesce(decorated, Str(<<DecoratedKey>>)).items],
                       beh |-> beh, outcome |-> r.outcome]
    /\ UNCHANGED <<_isEnabled, env, __DEV__, loggers, proxy, decorated, held, microtasks>>

\* The deferred result of the original of call id resolves or rejects;
\* the host queues the reaction of the .then continuation.
Settle(id, how) ==
    /\ id \in DOMAIN calls
    /\ calls[id].stage = "pending"
    /\ calls' = [calls EXCEPT ![id] =
                    [@ EXCEPT !.stage = "then", !.status = how, !.orig = how,
                              !.value = IF how = "fulfilled" THEN User ELSE LimitExceeded,
                              !.settleRank = MaxRank(calls, "settleRank") + 1]]
    /\ microtasks' = Append(microtasks, id)
    /\ last' = [op |-> "settle", id |-> id]
    /\ effects' = << >>
    /\ UNCHANGED <<_isEnabled, env, __DEV__, loggers, proxy, decorated, held>>

\* The host runs the oldest queued reaction
RunMicrotask ==
    /\ microtasks # << >>
    /\ LET id == Head(microtasks)
           c == calls[id]
           r == IF c.stage = "then" THEN ThenJob(c) ELSE CatchJob(c)
           rank == IF r.logs /\ c.logRank = 0 THEN MaxRank(calls, "logRank") + 1 ELSE c.logRank
       IN  /\ calls' = [calls EXCEPT ![id] =
                           [@ EXCEPT !.stage = IF c.stage = "then" THEN "catch" ELSE "done",
                                     !.status = r.status, !.value = r.value, !.logRank = rank]]
           /\ microtasks' = IF c.stage = "then" THEN Append(Tail(microtasks), id)
                            ELSE Tail(microtasks)
           /\ effects' = r.fx
           /\ last' = [op |-> "job", id |-> id, stage |-> c.stage]
    /\ UNCHANGED <<_isEnabled, env, __DEV__, loggers, proxy, decorated, held>>

InitProxy ==
    /\ InitCommon
    /\ env = [context |-> "node", NODE_ENV |-> Undefined, debug |-> Null]
    /\ __DEV__ = Undefined

\* With NODE_ENV unset the default rule returns true, as "alwaysOn" does
ProxyRules == {"defaultEnabled", "alwaysOff", "throwing"}

NextProxy ==
    \/ \E fn \in ProxyRules : SetEnableRule(fn)
    \/ \E opts \in ProxyOptions : WithDebugProxy(opts)
    \/ \E prop \in DataProperties : ReadProperty(prop)
    \/ \E m \in Methods, args \in ArgLists, beh \in Behaviours :
           CallMethod(m, args, beh) /\ Len(calls') <= MaxCalls
    \/ \E id \in DOMAIN calls, how \in {"fulfilled", "rejected"} : Settle(id, how)
    \/ RunMicrotask

SpecProxy == InitProxy /\ [][NextProxy]_vars

\* The option functions of the wrapper change what they answer (they are
\* the caller's closures; the wrapper keeps the opts object, not its answers)
AccessOptions == {o \in ProxyOptions : ~o.redactArgs /\ o.redactResult = "absent"}

SetOptions(opts) ==
    /\ proxy.wrapped
    /\ opts # proxy.opts
    /\ proxy' = [proxy EXCEPT !.opts = opts]
    /\ last' = [op |-> "setOptions"]
    /\ effects' = << >>
    /\ UNCHANGED <<_isEnabled, env, __DEV__, loggers, decorated, held, calls, microtasks>>

\* const f = wrapper.m: the get trap runs, the caller keeps what it returned
GetMethod(m) ==
    /\ proxy.wrapped
    /\ held' = [wrapped |-> get(m).wrapped, m |-> m, ns |-> get(m).ns, at |-> proxy.opts]
    /\ last' = [op |-> "get", prop |-> m, ref |-> get(m)]
    /\ effects' = << >>
    /\ UNCHANGED <<_isEnabled, env, __DEV__, loggers, proxy, decorated, calls, microtasks>>

\* f.call(thisArg, ...args) on the function kept from an earlier read
InvokeHeld(thisArg, args, beh) ==
    /\ held.m \in Methods
    /\ LET ref == [wrapped |-> held.wrapped, m |-> held.m, ns |-> held.ns]
           r == CallRef(ref, thisArg, args, beh, [fx |-> << >>, calls |-> calls])
       IN  /\ calls' = r.calls
           /\ effects' = r.fx
           /\ last' = [op |-> "call", via |-> "held", m |-> held.m, args |-> args, ref |-> ref,
                       receiver |-> thisArg, beh |-> beh, outcome |-> r.outcome]
    /\ UNCHANGED <<_isEnabled, env, __DEV__, loggers, proxy, decorated, held, microtasks>>

NextAccess ==
    \/ \E fn \in ProxyRules : SetEnableRule(fn)
    \/ \E opts \in AccessOptions : WithDebugProxy(opts)
    \/ \E opts \in AccessOptions : SetOptions(opts)
    \/ \E m \in Methods : GetMethod(m)
    \/ \E thisArg \in {"proxy", "target"}, args \in ArgLists, beh \in Behaviours :
           InvokeHeld(thisArg, args, beh) /\ Len(calls') <= MaxCalls
    \/ \E id \in DOMAIN calls, how \in {"fulfilled", "rejected"} : Settle(id, how)
    \/ RunMicrotask

SpecAccess == InitProxy /\ [][NextAccess]_vars

\* A class whose method processPayment carries @DebugLog() or @DebugLog("Payments")
DecoratorArgs == {Undefined, Str(<<"Payments">>)}

InitDeco ==
    /\ _isEnabled = "defaultEnabled"
    /\ env = [context |-> "node", NODE_ENV |-> Undefined, debug |-> Null]
    /\ __DEV__ = Undefined
    /\ loggers = {}
    /\ proxy = NoProxy
    /\ decorated \in DecoratorArgs
    /\ held = NoRef
    /\ calls = << >>
    /\ microtasks = << >>
    /\ last = Idle
    /\ effects = << >>

NextDeco ==
    \/ \E fn \in ProxyRules : SetEnableRule(fn)
    \/ \E args \in ArgLists, beh \in Behaviours :
           CallDecorated(args, beh) /\ Len(calls') <= MaxCalls
    \/ \E id \in DOMAIN calls, how \in {"fulfilled", "rejected"} : Settle(id, how)
    \/ RunMicrotask

SpecDeco == InitDeco /\ [][NextDeco]_vars

\* Overlapping calls: a wrapper without options and a decorated method,
\* under the rule installed at start-up
InitConcurrent ==
    /\ InitDeco
    /\ decorated = Undefined

NextConcurrent ==
    \/ WithDebugProxy(NoProxy.opts)
    \/ \E m \in Methods, args \in ArgLists, beh \in Behaviours :
           CallMethod(m, args, beh) /\ Len(calls') <= MaxInFlight
    \/ \E args \in ArgLists, beh \in Behaviours :
           CallDecorated(args, beh) /\ Len(calls') <= MaxInFlight
    \/ \E id \in DOMAIN calls, how \in {"fulfilled", "rejected"} : Settle(id, how)
    \/ RunMicrotask

SpecConcurrent == InitConcurrent /\ [][NextConcurrent]_vars

----------------------------------------------------------------------------
(* Reading the effects of a step *)

RECURSIVE Select(_, _)
Select(fx, kind) ==
    IF fx = << >> THEN << >>
    ELSE IF Head(fx).ev = kind THEN <<Head(fx)>> \o Select(Tail(fx), kind)
    ELSE Select(Tail(fx), kind)

Console(fx) == Select(fx, "console")
RuleCalls(fx) == Select(fx, "rule")

IsEmit(lvls) == last.op = "emit" /\ last.lvl \in lvls /\ ~last.h.obj.noop

\* The one line '[n] v1..vk' of an emission, on channel chan
OneLine(chan) == <<ConsoleEv(chan, <<Str(<<"[">> \o last.h.obj.ns \o <<"]">>)>> \o last.a)>>

----------------------------------------------------------------------------
(* Claims *)

C2_AlwaysOneLine ==
    IsEmit({"info", "warn", "error"}) => Console(effects) = OneLine(last.lvl)

\* C7 (as claimed): the rule is invoked exactly once per debug emission and
\* never during an info, warn or error emission, which therefore returns.
C7_RuleConsultedForDebugOnly ==
    /\ IsEmit({"debug"}) => Len(RuleCalls(effects)) = 1
    /\ IsEmit({"info", "warn", "error"}) =>
           Len(RuleCalls(effects)) = 0 /\ last.thrown = NoExc

\* C9: the default rule is active, in a non-browser context, iff NODE_ENV is
\* not "production"; in a browser context, iff the stored 'debug' value is
\* present, non-empty and not "false", or NODE_ENV is not "production".
NotProduction == env.NODE_ENV = Undefined \/ env.NODE_ENV # Str(<<"production">>)
DebugFlagSet ==
    /\ env.context = "browser"
    /\ env.debug # Null
    /\ env.debug # Str(<< >>)
    /\ env.debug # Str(<<"false">>)

C10_DevLogger ==
    last.op = "emit" /\ last.h.via = "makeDevLogger" =>
        IF last.h.dev = Bool(FALSE)
        THEN effects = << >> /\ last.thrown = NoExc
        ELSE LET r == emit(last.h.obj.ns, last.lvl, last.a, << >>)
             IN  effects = r.fx /\ last.thrown = r.thrown

\* C10 witness: the no-op logger swallows an error emission while a rule
\* that returns true is installed.
C10_Witness ==
    /\ last.op = "emit" /\ last.h.via = "makeDevLogger"
    /\ last.h.dev = Bool(FALSE)
    /\ last.lvl = "error" /\ last.a # << >>
    /\ _isEnabled = "alwaysOn"
    /\ effects = << >>

----------------------------------------------------------------------------
(* Claims about instrumented calls *)

IsCall(via) == last.op = "call" /\ last.via = via
Origs == Select(effects, "orig")
ErrorLines == LET RECURSIVE F(_)
                  F(fx) == IF fx = << >> THEN << >>
                           ELSE IF Head(fx).ev = "console" /\ Head(fx).chan = "error"
                                THEN <<Head(fx)>> \o F(Tail(fx)) ELSE F(Tail(fx))
              IN  F(effects)

\* What the original method m does when getUser behaves as beh
OrigOutcome(m, beh) ==
    IF m = "getUser" \/ m = DecoratedKey THEN beh
    ELSE IF beh.kind = "threw" THEN beh ELSE Returned(Done)

RuleReturns == CallRule(_isEnabled, env).thrown = NoExc
RuleOn == RuleReturns /\ Truthy(CallRule(_isEnabled, env).value)

C4_ErrorTransparency ==
    /\ IsCall("proxy") /\ last.ref.wrapped /\ Origs # << >>
         /\ OrigOutcome(last.m, last.beh).kind = "threw"
         => /\ last.outcome = Threw(LimitExceeded)
            /\ ErrorLines = <<ConsoleEv("error", <<Tag(proxy.name), ErrorIn(last.m), LimitExceeded>>)>>
    /\ last.op = "job" /\ last.stage = "catch" /\ calls[last.id].kind = "proxy"
         /\ calls[last.id].orig = "rejected"
         => /\ calls[last.id].status = "rejected" /\ calls[last.id].value = LimitExceeded
            /\ ErrorLines = <<ConsoleEv("error", <<Tag(proxy.name), ErrorIn(calls[last.id].m),
                                                  LimitExceeded>>)>>

\* C5 (as claimed): invoking an opted-out method through the wrapper writes
\* no log line, whatever the method does, calls through its receiver included.
C5_OptOutSilent ==
    IsCall("proxy") /\ ~last.ref.wrapped => Console(effects) = << >>

\* C6 (as claimed): the entry log comes before the original is invoked, a
\* call's outcome log comes only after that call completed, and the outcome
\* logs of overlapping calls come in the order in which the calls completed.
C6_Ordering ==
    /\ last.op = "call" /\ last.ref.wrapped /\ Origs # << >> =>
         \E i, j \in DOMAIN effects :
             /\ i < j
             /\ effects[i] = ConsoleEv("log", <<Tag(last.ref.ns), ArgsMarker, Arr(last.args)>>)
             /\ effects[j] = Head(Origs)
    /\ \A i \in DOMAIN calls : calls[i].logRank > 0 => calls[i].settleRank > 0
    /\ \A i, j \in DOMAIN calls :
         calls[i].logRank > 0 /\ calls[j].settleRank > 0
           /\ calls[j].settleRank < calls[i].settleRank
           => calls[j].logRank > 0 /\ calls[j].logRank < calls[i].logRank

\* C8 (as claimed): a call of a method decorated with DebugLog(ns) logs the
\* entry with the arguments, invokes the original with those arguments and
\* the caller's receiver, then logs the result at debug level or writes one
\* error line that names the method and the error, and hands back the
\* identical value or error; its namespace is ns, else the method's name.
NamesMethod(line, m) ==
    \E k \in DOMAIN line : line[k].tag = "string" /\ \E n \in DOMAIN line[k].items : line[k].items[n] = m

C8_DecoratedLikeWrapped ==
    /\ IsCall("decorated") =>
         /\ last.ref.ns = IF decorated = Undefined THEN <<last.m>> ELSE decorated.items
         /\ RuleReturns => Origs = <<OrigEv("instance", last.m, last.args)>>
         /\ RuleReturns /\ last.beh.kind # "threw" => last.outcome.kind = last.beh.kind
         /\ RuleOn /\ last.beh.kind = "returned" =>
              /\ last.outcome = last.beh
              /\ Console(effects) =
                   <<ConsoleEv("log", <<Tag(last.ref.ns), ArgsMarker, Arr(last.args)>>),
                     ConsoleEv("log", <<Tag(last.ref.ns), ResultMarker, last.beh.value>>)>>
         /\ RuleReturns /\ last.beh.kind = "threw" =>
              /\ last.outcome = last.beh
              /\ Len(ErrorLines) = 1
              /\ NamesMethod(ErrorLines[1].items, last.m)
              /\ ErrorLines[1].items[Len(ErrorLines[1].items)] = last.beh.value
    /\ last.op = "job" /\ last.stage = "catch" /\ calls[last.id].kind = "decorated"
         /\ calls[last.id].orig = "rejected"
         => /\ calls[last.id].status = "rejected" /\ calls[last.id].value = LimitExceeded
            /\ Len(ErrorLines) = 1
            /\ NamesMethod(ErrorLines[1].items, calls[last.id].m)

\* C11: opt-out and namespace are fixed when the property is read. A kept
\* function is instrumented iff optOut(m) was not true at that read, and
\* logs under namespaceFor(m) as answered then, else "<name>.<m>"; invoking
\* it later behaves so whatever the option functions answer by then; every
\* read of the property evaluates them afresh.
NamespaceAt(o, m) ==
    IF o.namespaceFor = "override" /\ m = "getUser" THEN <<"Sync">> ELSE proxy.name \o <<".", m>>

C11_FixedAtAccess ==
    /\ held.m \in Methods =>
         /\ held.wrapped <=> held.m \notin held.at.optOut
         /\ held.wrapped => held.ns = NamespaceAt(held.at, held.m)
    /\ last.op = "get" /\ last.prop \in Methods => held.at = proxy.opts
    /\ last.op = "call" /\ last.via = "held" =>
         IF held.wrapped
         THEN /\ effects[1].ev = "rule"
              /\ RuleOn => effects[2] =
                     ConsoleEv("log", <<Tag(NamespaceAt(held.at, held.m)), ArgsMarker, Arr(last.args)>>)
              /\ RuleReturns => Origs # << >> /\ Head(Origs) = OrigEv("target", held.m, last.args)
              /\ last.outcome.kind = "deferred" =>
                     calls[last.outcome.id].ns = NamespaceAt(held.at, held.m)
         ELSE /\ effects[1] = OrigEv(last.receiver, held.m, last.args)
              /\ \A i \in DOMAIN effects :
                     effects[i].ev = "console" => ~NamesMethod(effects[i].items, held.m)

\* C11 witness: a function read while its method was instrumented under the
\* overriding namespace still logs under it after optOut has come to answer
\* true for the method and namespaceFor to answer nothing.
C11_Witness ==
    /\ last.op = "call" /\ last.via = "held"
    /\ held.wrapped /\ held.m = "getUser" /\ held.ns = <<"Sync">>
    /\ "getUser" \in proxy.opts.optOut
    /\ proxy.opts.namespaceFor = "absent"
    /\ RuleOn
    /\ last.outcome = Returned(User)
    /\ Len(Console(effects)) = 2

\* C12 (as claimed): a call whose original returned, or whose deferred
\* result resolved, writes no error line '[name] x error in m', also when
\* redactResult raises while the success log is being prepared.
C12_ErrorLineOnlyForOriginalFailure ==
    /\ IsCall("proxy") /\ last.ref.wrapped /\ Origs # << >>
         /\ OrigOutcome(last.m, last.beh).kind = "returned"
         => ErrorLines = << >>
    /\ last.op = "job" /\ calls[last.id].kind = "proxy" /\ calls[last.id].orig = "fulfilled"
         => ErrorLines = << >>

====
